---- MODULE Spec2Model ----
(***************************************************************************)
(* Session manager (AuthContext.js) and resilient request executor         *)
(* (api client: request, tryRefresh) of the Skill Story LMS frontend.      *)
(*                                                                         *)
(* Every async function is a task that is suspended at one fetch at a      *)
(* time.  One action delivers one HTTP response (or a fetch rejection) to  *)
(* one task and runs the JavaScript continuation up to the next fetch,     *)
(* followed by the React render that the state updates of the continuation *)
(* cause (the updates of one continuation are batched into one render,     *)
(* whose effects run before the next event is handled).                    *)
(*                                                                         *)
(* The backend is external: its responses are drawn from small sets and do *)
(* not depend on what was sent, so a fetch in flight is known by its       *)
(* endpoint only; what each step sends is recorded in the variable sent.   *)
(* Absent strings (null, undefined, "", missing key) are the empty string. *)
(***************************************************************************)
EXTENDS Integers, Sequences, FiniteSets, Bags, TLC

\* ---- bounds ------------------------------------------------------------
MaxOps    == 2       \* operations started by the user / by context consumers
MaxFaults == 2       \* responses that are not a well-formed success

\* ---- value sets of the external world ------------------------------------
Tokens  == {"T1", "T2"}        \* access tokens the backend may mint
RTokens == {"R1", "R2"}        \* refresh tokens the backend may mint
Users   == {"u1"}              \* identity records of GET /api/auth/me
Vals    == {"v1"}              \* payloads of protected endpoints
Details == {"d1"}              \* server-provided detail/message texts
NoUser  == "null"
TokenPairs    == {<<"T1", "R1">>, <<"T2", "R2">>}   \* bodies of login/register
\* bodies of /api/auth/refresh: plain, with a rotated refresh token, without token
RefreshBodies == {<<"T1", "">>, <<"T2", "R2">>, <<"", "">>}

HTTP_OK           == 200
HTTP_UNAUTHORIZED == 401
HTTP_SERVER_ERROR == 500
NET_FAIL          == 0         \* fetch() rejected: there is no response

VARIABLES
  lsToken,       \* localStorage["skillstory.token"], "" when absent
  lsRefresh,     \* localStorage["skillstory.refresh_token"], "" when absent
  accessToken,   \* AuthProvider state
  refreshToken,  \* AuthProvider state
  user,          \* AuthProvider state
  initializing,  \* AuthProvider state
  mounted,       \* the mount effects of AuthProvider have run
  tasks,         \* bag of suspended async functions, each awaiting one fetch
  sent,          \* the fetches issued in the last step
  got,           \* the task and the response the last step delivered to it, if any
  lastReq,       \* the request() call that settled in the last step, if any
  lastOp,        \* the context operation that ended in the last step, if any
  lastIssued,    \* access_token of the last token response the client accepted
                 \* (at the start, the one a former session left in storage)
  nOps,          \* operations started so far
  nFaults,       \* faulty responses delivered so far
  storage,       \* whether localStorage can be accessed: ok | blocked | full
  sinceLogout,   \* logout() has run and no login or register has succeeded since
  \* -- the screens behind the session: story browser and authoring dashboard
  screen,        \* the piece of local state a behaviour exercises (see Screens)
  items,         \* that list: stories, episodes, choices, quizQs or journal data
  selected,      \* id of selectedStory / selectedStoryId, NoId when none
  epIndex,       \* StoryBrowser: epIndex
  submitError,   \* useSubmitChoice: error is set
  epFetch,       \* useEpisode: the getEpisode calls in flight, oldest first
  epHook,        \* useEpisode: data (by the arguments it answers) and error
  pend,          \* the handlers suspended at their api call
  now,           \* the value Date.now() returns
  uiLast,        \* what the last step of a handler did, if any
  nUi            \* handlers started so far

authVars == <<lsToken, lsRefresh, accessToken, refreshToken, user, initializing,
              mounted, tasks, sent, got, lastReq, lastOp, lastIssued, nOps, nFaults, storage, sinceLogout>>

uiVars == <<screen, items, selected, epIndex, submitError, epFetch, epHook, pend, now,
           uiLast, nUi>>

vars == <<authVars, uiVars>>

\* ---- HTTP responses ------------------------------------------------------
Resp(s, at, rt, d, v) ==
  [status |-> s, access_token |-> at, refresh_token |-> rt, detail |-> d, val |-> v]

NoResp == Resp(-1, "", "", "", "")

\* Response.ok
ResOk(resp) == resp.status >= 200 /\ resp.status <= 299

\* Failures: 401 with a detail text, 500 without one, no response at all.
ErrResponses ==
  {Resp(HTTP_UNAUTHORIZED, "", "", d, "") : d \in Details}
  \cup {Resp(HTTP_SERVER_ERROR, "", "", "", ""), Resp(NET_FAIL, "", "", "", "")}

\* What the backend may answer on each endpoint.
Responses(dest) ==
  CASE dest \in {"login", "register"} ->
         {Resp(HTTP_OK, p[1], p[2], "", "") : p \in TokenPairs} \cup ErrResponses
    [] dest = "refresh" ->
         {Resp(HTTP_OK, p[1], p[2], "", "") : p \in RefreshBodies} \cup ErrResponses
    [] dest = "me" ->
         {Resp(HTTP_OK, "", "", "", u) : u \in Users} \cup ErrResponses
    [] OTHER ->
         {Resp(HTTP_OK, "", "", "", v) : v \in Vals} \cup ErrResponses

Faulty(dest, resp) == ~ResOk(resp) \/ (dest = "refresh" /\ resp.access_token = "")

\* ---- request() and tryRefresh() ------------------------------------------
StatusMessage(s) ==
  CASE s = HTTP_UNAUTHORIZED -> "Request failed with status 401"
    [] s = HTTP_SERVER_ERROR -> "Request failed with status 500"
    [] OTHER                 -> "Request failed"

\* (data && (data.detail || data.message)) || `Request failed with status N`
ErrMessage(resp) == IF resp.detail # "" THEN resp.detail ELSE StatusMessage(resp.status)

NoOut == [kind |-> "none", status |-> -1, data |-> NoResp, message |-> "", needsAuth |-> FALSE]

\* return { data, status, ok }
OkOut(resp) ==
  [kind |-> "ok", status |-> resp.status, data |-> resp, message |-> "", needsAuth |-> FALSE]

HttpErr_AlwaysNeedsAuth(resp) ==
  [kind |-> "err", status |-> resp.status, data |-> resp,
   message |-> ErrMessage(resp), needsAuth |-> TRUE]

\* the error thrown for a non-ok response
HttpErr(resp) ==
  [kind |-> "err", status |-> resp.status, data |-> resp,
   message |-> ErrMessage(resp), needsAuth |-> (resp.status = HTTP_UNAUTHORIZED)]

\* fetch() itself rejected: a TypeError without status or data
NetErr ==
  [kind |-> "err", status |-> NET_FAIL, data |-> NoResp,
   message |-> "Failed to fetch", needsAuth |-> FALSE]

\* A fetch: the endpoint, the token of its Authorization header ("" = no
\* header), the refresh_token of its JSON body, and the code that issued it.
Fetch(dest, auth, body, by) == [dest |-> dest, auth |-> auth, body |-> body, by |-> by]

\* request(input, init, allowRetry) suspended at its await fetch(...)
NewRequest(ep, allowRetry) ==
  [ep         |-> ep,
   allowRetry |-> allowRetry,
   phase      |-> "first",      \* first | refresh | retry
   first      |-> NoResp,       \* the response that started the 401 path
   nFetch     |-> 1,            \* fetches of the endpoint itself
   nRefresh   |-> 0,            \* fetches of /api/auth/refresh by tryRefresh
   last       |-> NoResp,       \* the response that settled the call
   wrote      |-> "",           \* the access token its tryRefresh stored, if any,
   over       |-> "",           \* and the stored value that was replaced
   out        |-> NoOut]

FirstFetch_NoBearer(ep, tok, body) == Fetch(ep, "", body, "request")

\* The fetch of request(input, init, allowRetry) when init.headers has no
\* Authorization: tok is the value of getToken().
FirstFetch(ep, tok, body) == Fetch(ep, tok, body, "request")

\* The endpoint the pending fetch of a request was sent to.
Dest(r) == IF r.phase = "refresh" THEN "refresh" ELSE r.ep

\* request() line 132: res.status === 401 && allowRetry && getRefreshToken()
needsRefresh_NoTokenCheck(r, resp, rt) ==
  resp.status = HTTP_UNAUTHORIZED /\ r.allowRetry

needsRefresh_IgnoresRetryFlag(r, resp, rt) ==
  resp.status = HTTP_UNAUTHORIZED /\ rt # ""

needsRefresh(r, resp, rt) ==
  resp.status = HTTP_UNAUTHORIZED /\ r.allowRetry /\ rt # ""

\* tryRefresh() up to its await fetch: posts the stored refresh token
startRefresh(r, resp, tok, rt) ==
  [req  |-> [r EXCEPT !.phase = "refresh", !.first = resp, !.nRefresh = @ + 1],
   tok  |-> tok,
   sent |-> {Fetch("refresh", "", rt, "tryRefresh")}]

\* tryRefresh() threw (no response, not ok, or no access_token); request()
\* catches it and falls through to the error of its own response
refreshFailed(r, resp, tok) ==
  [req |-> [r EXCEPT !.out = HttpErr(r.first), !.last = resp], tok |-> tok, sent |-> {}]

\* the retried request() threw (no response, or not ok): "return await
\* request(...)" is inside the try block, so the same catch swallows the
\* error and the outer call throws the error of its own, first response
retryFailed(r, resp, tok) ==
  [req |-> [r EXCEPT !.out = HttpErr(r.first), !.last = resp], tok |-> tok, sent |-> {}]

retryWith_StillRetryable(r, resp, tok, body) ==
  [req  |-> [r EXCEPT !.phase = "retry", !.nFetch = @ + 1],
   tok  |-> resp.access_token,
   sent |-> {Fetch(r.ep, resp.access_token, body, "retry")}]

retryWith_NotStored(r, resp, tok, body) ==
  [req  |-> [r EXCEPT !.phase = "retry", !.allowRetry = FALSE, !.nFetch = @ + 1],
   tok  |-> tok,
   sent |-> {Fetch(r.ep, resp.access_token, body, "retry")}]

retryWith_StaleHeader(r, resp, tok, body) ==
  [req  |-> [r EXCEPT !.phase = "retry", !.allowRetry = FALSE, !.nFetch = @ + 1],
   tok  |-> resp.access_token,
   sent |-> {Fetch(r.ep, tok, body, "retry")}]

\* tryRefresh() succeeded: setToken(data.access_token), then
\* request(input, {...init, headers: retryHeaders}, false) up to its fetch
retryWith(r, resp, tok, body) ==
  [req  |-> [r EXCEPT !.phase = "retry", !.allowRetry = FALSE, !.nFetch = @ + 1,
                      !.wrote = resp.access_token, !.over = tok],
   tok  |-> resp.access_token,
   sent |-> {Fetch(r.ep, resp.access_token, body, "retry")}]

\* the end of request(): throw for a non-ok response, else return
settle(r, resp, tok) ==
  [req  |-> [r EXCEPT !.out = IF ResOk(resp) THEN OkOut(resp) ELSE HttpErr(resp),
                      !.last = resp],
   tok  |-> tok,
   sent |-> {}]

\* One response delivered to a suspended request(): the request afterwards
\* (out.kind = "none" while another fetch is pending), the access token in
\* storage afterwards and the fetches issued.  tok and rt are the stored
\* tokens, body the refresh_token of the original JSON body.
RequestStep(r, resp, tok, rt, body) ==
  IF r.phase = "refresh"
  THEN \* tryRefresh after its await fetch
       IF resp.status = NET_FAIL \/ ~ResOk(resp) \/ resp.access_token = ""
       THEN refreshFailed(r, resp, tok)
       ELSE retryWith(r, resp, tok, body)
  ELSE \* request(), the first or the retried one, after its await fetch
       IF resp.status = NET_FAIL
       THEN IF r.phase = "retry"
            THEN retryFailed(r, resp, tok)
            ELSE [req |-> [r EXCEPT !.out = NetErr, !.last = resp], tok |-> tok, sent |-> {}]
       ELSE IF needsRefresh(r, resp, rt)
       THEN startRefresh(r, resp, tok, rt)
       ELSE IF r.phase = "retry" /\ ~ResOk(resp)
       THEN retryFailed(r, resp, tok)
       ELSE settle(r, resp, tok)

\* ---- AuthProvider ---------------------------------------------------------
\* The mutable state a continuation works on.
Cur ==
  [lsToken |-> lsToken, lsRefresh |-> lsRefresh, accessToken |-> accessToken,
   refreshToken |-> refreshToken, user |-> user, initializing |-> initializing,
   tasks |-> tasks, sent |-> {}, storage |-> storage]

\* A suspended async function: op and pc say where it continues, active is
\* the flag of the init effect's closure, capR the refreshToken its closure
\* captured (kept while the remaining code reads it).
Task(op, pc, req, capR) ==
  [op |-> op, pc |-> pc, req |-> req, active |-> TRUE, capR |-> capR]

AddTask(s, t, f) == [s EXCEPT !.tasks = @ (+) SetToBag({t}), !.sent = @ \cup {f}]

\* localStorage of a browser that denies storage access throws on every
\* call; a storage that is full throws on setItem only.
StorageModes == {"ok", "blocked", "full"}
GetThrows(s)    == s.storage = "blocked"
SetThrows(s)    == s.storage \in {"blocked", "full"}
RemoveThrows(s) == s.storage = "blocked"
\* setItem when token is truthy, removeItem otherwise
WriteThrows(s, token) == IF token # "" THEN SetThrows(s) ELSE RemoveThrows(s)

\* getToken() of the api client: "" when the read throws
getToken(s) == IF GetThrows(s) THEN "" ELSE s.lsToken

\* getRefreshToken() of the api client
getRefreshToken(s) == IF GetThrows(s) THEN "" ELSE s.lsRefresh

\* localStorage.getItem(TOKEN_KEY) || "" in a useState initialiser
initialState(s, stored) == IF GetThrows(s) THEN "" ELSE stored

\* setToken(token) of the api client: storage errors are ignored
setToken(s, token) ==
  IF WriteThrows(s, token) THEN s ELSE [s EXCEPT !.lsToken = token]

\* setRefreshToken(token) of the api client
setRefreshToken(s, token) ==
  IF WriteThrows(s, token) THEN s ELSE [s EXCEPT !.lsRefresh = token]

\* persistTokens of the context: one try block around both setItem / setState
\* pairs, so a setItem that throws skips the state updates behind it
persistTokens(s, at, rt) ==
  LET s1 == IF at # "" THEN [s EXCEPT !.lsToken = at, !.accessToken = at] ELSE s
  IN  IF (at # "" \/ rt # "") /\ SetThrows(s) THEN s
      ELSE IF rt # "" THEN [s1 EXCEPT !.lsRefresh = rt, !.refreshToken = rt] ELSE s1

clearTokens_KeepsRefresh(s) ==
  [s EXCEPT !.lsToken = "", !.accessToken = "", !.refreshToken = ""]

\* clearTokens of the context: the removals in a try block, then the state
clearTokens(s) ==
  IF RemoveThrows(s)
  THEN [s EXCEPT !.accessToken = "", !.refreshToken = ""]
  ELSE [s EXCEPT !.lsToken = "", !.lsRefresh = "", !.accessToken = "", !.refreshToken = ""]

\* api.login / api.register after request() returned res
apiStoreTokenPair(s, data) ==
  LET s1 == IF data.access_token # "" THEN setToken(s, data.access_token) ELSE s
  IN  IF data.refresh_token # "" THEN setRefreshToken(s1, data.refresh_token) ELSE s1

\* api.refresh after request() returned res
apiStoreAccess(s, data) ==
  IF data.access_token # "" THEN setToken(s, data.access_token) ELSE s

refreshReturned_Rotates(s, data, capR) ==
  persistTokens(apiStoreAccess(s, data), data.access_token,
                IF data.refresh_token # "" THEN data.refresh_token ELSE capR)

\* refresh() of the context after api.refresh(refreshToken) returned res;
\* capR is the refreshToken of the render that created the callback.
refreshReturned(s, data, capR) ==
  persistTokens(apiStoreAccess(s, data), data.access_token, capR)

\* api.me() up to its fetch, called by the task t
callMe(s, t) ==
  AddTask(s, [t EXCEPT !.pc = "me", !.req = NewRequest("me", TRUE), !.capR = ""],
          FirstFetch("me", getToken(s), ""))

\* api.refresh(rt) up to its fetch: request("/api/auth/refresh", ..., false)
callRefresh(s, op, pc, rt) ==
  AddTask(s, Task(op, pc, NewRequest("refresh", FALSE), rt),
          FirstFetch("refresh", getToken(s), rt))

InitEffect_NoEnd(s) ==
  LET a == s.accessToken
      r == s.refreshToken
  IN  IF r # "" /\ a = ""
      THEN callRefresh(s, "init", "refresh", r)
      ELSE IF a # "" \/ (r # "" /\ s.lsToken # "")
      THEN callMe(s, Task("init", "me", NewRequest("me", TRUE), ""))
      ELSE s

InitEffect_NoAwait(s) ==
  LET a == s.accessToken
      r == s.refreshToken
  IN  IF r # "" /\ a = ""
      THEN callMe(callRefresh(s, "init", "refresh", r), Task("init", "me", NewRequest("me", TRUE), ""))
      ELSE IF a # "" \/ (r # "" /\ s.lsToken # "")
      THEN callMe(s, Task("init", "me", NewRequest("me", TRUE), ""))
      ELSE [s EXCEPT !.initializing = FALSE]

\* The body of the init effect, up to its first await or to its end.
InitEffect(s) ==
  LET a == s.accessToken
      r == s.refreshToken
  IN  IF r # "" /\ a = ""
      THEN callRefresh(s, "init", "refresh", r)
      ELSE IF a # "" \/ (r # "" /\ s.lsToken # "")
      THEN callMe(s, Task("init", "me", NewRequest("me", TRUE), ""))
      ELSE [s EXCEPT !.initializing = FALSE]

\* cleanup of the init effect: active = false in every earlier run
Deactivate(s) ==
  LET off(t) == IF t.op = "init" THEN [t EXCEPT !.active = FALSE] ELSE t
      old    == BagToSet(s.tasks)
  IN  [s EXCEPT !.tasks = [u \in {off(t) : t \in old} |->
                             CopiesIn(u, s.tasks)
                             + (IF u.op = "init"
                                THEN CopiesIn([u EXCEPT !.active = TRUE], s.tasks)
                                ELSE 0)]]

\* useEffect(() => api.setToken(accessToken || ""), [accessToken])
SyncEffect(s) == setToken(s, s.accessToken)

\* The render after a continuation that left the state s: the effects whose
\* dependencies differ from those of the previous render run, in source order.
Render(s) ==
  LET s1 == IF s.accessToken # accessToken THEN SyncEffect(s) ELSE s
  IN  IF s.accessToken # accessToken \/ s.refreshToken # refreshToken
      THEN InitEffect(Deactivate(s1))
      ELSE s1

\* const FALLBACK_STORIES: the ids of its items
FALLBACK_STORIES == <<1, 2>>

listStories_Rethrows(out) ==
  [ok |-> out.kind = "ok", status |-> out.status, server |-> TRUE, val |-> out.data.val,
   items |-> <<>>]

\* api.listStories() once its request() settled with out: the result of
\* request(), or { data: FALLBACK_STORIES, status: 200, ok: true } when it threw
listStories(out) ==
  IF out.kind = "ok"
  THEN [ok |-> TRUE, status |-> out.status, server |-> TRUE, val |-> out.data.val,
        items |-> <<>>]
  ELSE [ok |-> TRUE, status |-> HTTP_OK, server |-> FALSE, val |-> "",
        items |-> FALLBACK_STORIES]

NoReq == NewRequest("none", FALSE)
NoGot == [task |-> Task("none", "none", NoReq, ""), resp |-> NoResp]
NoOp == [op |-> "none", kind |-> "none", message |-> ""]
OpOut(op, kind, message) == [op |-> op, kind |-> kind, message |-> message]

\* The continuation of task t once its request() settled with outcome out;
\* s is the state without t.  Yields the state before the render and the
\* outcome of the context operation, if it ended.
Continue(s, t, out) ==
  CASE t.op \in {"login", "register"} /\ t.pc = "main" ->
         IF out.kind = "ok"
         THEN [s |-> callMe(persistTokens(apiStoreTokenPair(s, out.data),
                                          out.data.access_token, out.data.refresh_token), t),
               op |-> NoOp]
         ELSE [s |-> s, op |-> OpOut(t.op, "err", out.message)]
    [] t.op \in {"login", "register"} /\ t.pc = "me" ->
         [s |-> [s EXCEPT !.user = IF out.kind = "ok" THEN out.data.val ELSE NoUser],
          op |-> OpOut(t.op, "ok", "")]
    [] t.op = "refresh" ->
         IF out.kind = "ok"
         THEN [s |-> refreshReturned(s, out.data, t.capR), op |-> OpOut("refresh", "ok", "")]
         ELSE [s |-> s, op |-> OpOut("refresh", "err", out.message)]
    [] t.op = "init" /\ t.pc = "refresh" ->
         IF out.kind = "ok"
         THEN LET s1 == refreshReturned(s, out.data, t.capR)
              IN  \* accessToken of the closure is "" here, so the condition
                  \* reads localStorage.getItem(TOKEN_KEY), outside any catch:
                  \* when it throws, init() rejects after its finally block
                  IF t.capR # "" /\ GetThrows(s1)
                  THEN [s |-> [s1 EXCEPT !.initializing = IF t.active THEN FALSE ELSE @],
                        op |-> OpOut("init", "err", "storage")]
                  ELSE IF t.capR # "" /\ s1.lsToken # ""
                  THEN [s |-> callMe(s1, t), op |-> NoOp]
                  ELSE [s |-> [s1 EXCEPT !.initializing = IF t.active THEN FALSE ELSE @],
                        op |-> OpOut("init", "ok", "")]
         ELSE \* refresh() threw: no catch in init(), only the finally runs
              [s |-> [s EXCEPT !.initializing = IF t.active THEN FALSE ELSE @],
               op |-> OpOut("init", "err", out.message)]
    [] t.op = "init" /\ t.pc = "me" ->
         \* me() sets the user itself; init() sets it again when still active
         [s |-> [s EXCEPT !.user = IF out.kind = "ok" THEN out.data.val
                                   ELSE IF t.active THEN NoUser ELSE @,
                          !.initializing = IF t.active THEN FALSE ELSE @],
          op |-> OpOut("init", "ok", "")]
    [] t.op = "stories" ->
         \* useStories: setData(res.data), or setError(e) had listStories thrown
         [s |-> s, op |-> OpOut("stories", IF listStories(out).ok THEN "ok" ELSE "err", "")]
    [] OTHER -> \* a protected api call of the story browser
         [s |-> s, op |-> OpOut(t.op, out.kind, out.message)]

\* The access token of a token response that the client accepted.
Issued(t, resp, r2) ==
  IF t.req.phase = "refresh" /\ r2.phase = "retry" THEN resp.access_token
  ELSE IF r2.out.kind = "ok" /\ t.req.ep \in {"login", "register", "refresh"}
          /\ resp.access_token # "" THEN resp.access_token
  ELSE lastIssued

Install(s) ==
  /\ lsToken' = s.lsToken
  /\ lsRefresh' = s.lsRefresh
  /\ accessToken' = s.accessToken
  /\ refreshToken' = s.refreshToken
  /\ user' = s.user
  /\ initializing' = s.initializing
  /\ tasks' = s.tasks
  /\ sent' = s.sent

\* ---- values of the screens ---------------------------------------------------------
\* JavaScript values an index can take: a number, a string of digits, null/undefined
Num(n) == [t |-> "num", n |-> n, s |-> <<>>]
Str(s) == [t |-> "str", n |-> 0, s |-> s]
Nullish == [t |-> "nullish", n |-> 0, s |-> <<>>]

\* Identifiers of list items: `tmp-${Date.now()}` or an id the server chose
TmpId(ms) == [tmp |-> TRUE, n |-> ms]
Sid(k) == [tmp |-> FALSE, n |-> k]

NoId == Sid(0)

Item(id, index, payload) == [id |-> id, index |-> index, payload |-> payload]

NoTask ==
  [call |-> 0, op |-> "none", pc |-> "none", tmpId |-> Sid(0), item |-> Item(Sid(0), 0, ""),
   pre |-> <<>>, alone |-> TRUE, prev |-> Num(0)]

NoResult == [body |-> "none", hasNext |-> FALSE, next |-> 0]

\* The arguments of a useEpisode call; its data is named by the arguments of
\* the getEpisode call that returned it.
Args(sid, idx) == [story |-> sid, index |-> idx]

\* The hook once its first run resolved: no story is selected, data is null
NoEpisode == [data |-> Args(NoId, Num(0)), error |-> FALSE]
NoUi == [ev |-> "none", task |-> NoTask, data |-> Item(Sid(0), 0, ""), result |-> NoResult]

\* No screen is exercised.
UiIdle ==
  /\ screen = "none"
  /\ items = <<>>
  /\ selected = NoId
  /\ epIndex = Num(0)
  /\ submitError = FALSE
  /\ epFetch = <<>>
  /\ epHook = NoEpisode
  /\ pend = {}
  /\ now = 0
  /\ uiLast = NoUi
  /\ nUi = 0

\* ---- actions ------------------------------------------------------------------
\* The state after the useState initialisers, for any content of the storage.
Init ==
  /\ storage = "ok"
  /\ lsToken \in {"", "T1"}
  /\ lsRefresh \in {"", "R1"}
  /\ accessToken = lsToken
  /\ refreshToken = lsRefresh
  /\ user = NoUser
  /\ initializing = TRUE
  /\ mounted = FALSE
  /\ tasks = EmptyBag
  /\ sent = {}
  /\ lastReq = NoReq
  /\ got = NoGot
  /\ lastOp = NoOp
  /\ lastIssued = lsToken
  /\ nOps = 0
  /\ nFaults = 0
  /\ sinceLogout = FALSE
  /\ UiIdle

\* The effects of the first render.
Mount ==
  /\ ~mounted
  /\ mounted' = TRUE
  /\ Install(InitEffect(SyncEffect(Cur)))
  /\ lastReq' = NoReq
  /\ got' = NoGot
  /\ lastOp' = NoOp
  /\ UNCHANGED <<lastIssued, nOps, nFaults>>
  /\ UNCHANGED <<uiVars, storage, sinceLogout>>

\* A response (or a fetch rejection) reaches the suspended task t.
Respond(t, resp) ==
  LET st == RequestStep(t.req, resp, getToken(Cur), getRefreshToken(Cur), t.capR)
      s0 == [setToken(Cur, st.tok) EXCEPT !.tasks = @ (-) SetToBag({t}), !.sent = st.sent]
  IN  /\ BagIn(t, tasks)
      /\ Faulty(Dest(t.req), resp) => nFaults < MaxFaults
      /\ nFaults' = IF Faulty(Dest(t.req), resp) THEN nFaults + 1 ELSE nFaults
      /\ lastIssued' = Issued(t, resp, st.req)
      /\ got' = [task |-> t, resp |-> resp]
      /\ UNCHANGED <<mounted, nOps>>
      /\ sinceLogout' = IF t.op \in {"login", "register"} /\ t.pc = "main"
                           /\ st.req.out.kind = "ok"
                        THEN FALSE ELSE sinceLogout
      /\ UNCHANGED <<uiVars, storage>>
      /\ IF st.req.out.kind = "none"
         THEN /\ Install([s0 EXCEPT !.tasks = @ (+) SetToBag({[t EXCEPT !.req = st.req]})])
              /\ lastReq' = NoReq
              /\ lastOp' = NoOp
         ELSE LET c == Continue(s0, t, st.req.out)
              IN  /\ Install(Render(c.s))
                  /\ lastReq' = st.req
                  /\ lastOp' = c.op

\* An operation that starts with a call of request().
StartOp(op, ep) ==
  /\ mounted
  /\ nOps < MaxOps
  /\ nOps' = nOps + 1
  /\ Install(AddTask(Cur, Task(op, "main", NewRequest(ep, TRUE), ""), FirstFetch(ep, getToken(Cur), "")))
  /\ lastReq' = NoReq
  /\ got' = NoGot
  /\ lastOp' = NoOp
  /\ UNCHANGED <<mounted, lastIssued, nFaults>>
  /\ UNCHANGED <<uiVars, storage, sinceLogout>>

\* Login form (shown by AppBody when not initializing and no user)
Login ==
  /\ ~initializing /\ user = NoUser
  /\ StartOp("login", "login")

\* Signup form
Register ==
  /\ ~initializing /\ user = NoUser
  /\ StartOp("register", "register")

\* Any protected call of the story browser (rendered when a user is present)
ApiCall ==
  /\ ~initializing /\ user # NoUser
  /\ StartOp("call", "call")

\* useStories() of the story browser: api.listStories()
ListStories ==
  /\ ~initializing /\ user # NoUser
  /\ StartOp("stories", "stories")

\* refresh() of the context value, called by a consumer
CtxRefresh ==
  /\ mounted
  /\ nOps < MaxOps
  /\ nOps' = nOps + 1
  /\ lastReq' = NoReq
  /\ got' = NoGot
  /\ UNCHANGED <<mounted, lastIssued, nFaults>>
  /\ UNCHANGED <<uiVars, storage, sinceLogout>>
  /\ IF refreshToken = ""
     THEN /\ lastOp' = OpOut("refresh", "err", "No refresh token")
          /\ Install(Cur)
     ELSE /\ lastOp' = NoOp
          /\ Install(callRefresh(Cur, "refresh", "main", refreshToken))

\* logout() of the context value
Logout ==
  /\ mounted
  /\ nOps < MaxOps
  /\ nOps' = nOps + 1
  /\ Install(Render([clearTokens(Cur) EXCEPT !.user = NoUser]))
  /\ lastReq' = NoReq
  /\ got' = NoGot
  /\ lastOp' = OpOut("logout", "ok", "")
  /\ UNCHANGED <<mounted, lastIssued, nFaults>>
  /\ sinceLogout' = TRUE
  /\ UNCHANGED <<uiVars, storage>>

Deliver == \E t \in BagToSet(tasks) : \E resp \in Responses(Dest(t.req)) : Respond(t, resp)

Next == Mount \/ Deliver \/ Login \/ Register \/ ApiCall \/ ListStories \/ CtxRefresh \/ Logout

Spec == Init /\ [][Next]_vars

TypeOK ==
  /\ lsToken \in Tokens \cup {""}
  /\ lsRefresh \in RTokens \cup {""}
  /\ accessToken \in Tokens \cup {""}
  /\ refreshToken \in RTokens \cup {""}
  /\ user \in Users \cup {NoUser}
  /\ initializing \in BOOLEAN
  /\ nOps \in 0..MaxOps
  /\ nFaults \in 0..MaxFaults

\* ---- request(): the 401 path -----------------------------------------------
AllReqs == {t.req : t \in BagToSet(tasks)} \cup {lastReq}

\* C1: a call whose first response is 401 while a refresh token is stored and
\* whose refresh exchange succeeds (it reaches the retry phase) has issued
\* exactly one refresh exchange and exactly one retry; no call, pending or
\* settled, ever issues a second refresh or a second retry, also when the
\* retry returns 401.
C1_OneRefreshOneRetry ==
  \A r \in AllReqs :
    /\ r.nRefresh <= 1
    /\ r.nFetch <= 2
    /\ r.phase = "retry" => (r.nRefresh = 1 /\ r.nFetch = 2 /\ r.first.status = HTTP_UNAUTHORIZED)

\* a call settled by a 401 answer to its retry
C1_Witness ==
  /\ lastReq.phase = "retry"
  /\ lastReq.last.status = HTTP_UNAUTHORIZED
  /\ lastReq.out.kind = "err"
  /\ lastReq.nRefresh = 1
  /\ lastReq.nFetch = 2

\* C2 (as claimed): after a successful refresh, what request() delivers is
\* the outcome of the retried call: {data, status} of the retry response when
\* it is ok, else an error with the status and body of the retry response.
C2_RetryOutcomeDelivered ==
  (lastReq.phase = "retry" /\ lastReq.last.status # NET_FAIL) =>
    /\ lastReq.out.status = lastReq.last.status
    /\ lastReq.out.data = lastReq.last
    /\ (lastReq.out.kind = "ok") = ResOk(lastReq.last)
    /\ (lastReq.out.kind = "err") = ~ResOk(lastReq.last)

\* C3: a 401 answer to a call of request() while no refresh token is stored
\* settles the call in that step with an error of status 401; the step sends
\* nothing to /api/auth/refresh and does not re-issue the call.
C3_NoRefreshTokenFailsAtOnce ==
  [][(/\ got'.task.req.phase \in {"first", "retry"}
      /\ got'.resp.status = HTTP_UNAUTHORIZED
      /\ lsRefresh = "")
     => /\ lastReq'.out.kind = "err"
        /\ lastReq'.out.status = HTTP_UNAUTHORIZED
        /\ lastReq'.nRefresh = got'.task.req.nRefresh
        /\ lastReq'.nFetch = got'.task.req.nFetch
        /\ \A f \in sent' : f.dest # "refresh" /\ f.by # "retry"]_vars

\* a first fetch answered 401 with nothing in the refresh-token slot
C3_Witness ==
  /\ lastReq.phase = "first"
  /\ lastReq.allowRetry
  /\ lastReq.out.kind = "err"
  /\ lastReq.out.status = HTTP_UNAUTHORIZED
  /\ lastReq.nRefresh = 0
  /\ lsRefresh = ""
  /\ sent = {}

\* ---- the stored access token --------------------------------------------------
\* C4: the access-token slot of the storage is empty or holds the access_token
\* of the most recent token response that login, register or a refresh
\* (explicit or in the 401 path) accepted.
C4_StoredTokenIsLatest == lsToken # "" => lsToken = lastIssued

\* a refresh in the 401 path replaced T1 by T2
C4_Witness ==
  /\ lastReq.phase = "retry"
  /\ lsToken = "T2"
  /\ lastIssued = "T2"
  /\ accessToken = "T1"

\* C5: in the 401 path the refresh exchange posts the stored refresh token;
\* when it returns an access token, the step stores it, leaves the refresh
\* token alone and re-issues the call with that token as its bearer; the
\* success of the retried protected call changes neither stored token.
C5_RefreshThenRetryWithNewToken ==
  [][LET t == got'.task  resp == got'.resp IN
     /\ (t.req.phase = "first" /\ resp.status = HTTP_UNAUTHORIZED
         /\ t.req.allowRetry /\ lsRefresh # "")
        => /\ sent' = {Fetch("refresh", "", lsRefresh, "tryRefresh")}
           /\ UNCHANGED <<lsToken, lsRefresh>>
     /\ (t.req.phase = "refresh" /\ ResOk(resp) /\ resp.access_token # "")
        => /\ lsToken' = resp.access_token
           /\ lsRefresh' = lsRefresh
           /\ sent' = {Fetch(t.req.ep, resp.access_token, t.capR, "retry")}
     /\ (t.req.phase = "retry" /\ t.op = "call" /\ ResOk(resp))
        => UNCHANGED <<lsToken, lsRefresh>>]_vars

\* the scenario's end: T1/R1 were stored, the refresh minted T2 (and offered
\* R2), the retried call succeeded
C5_Witness ==
  /\ lastReq.ep = "call"
  /\ lastReq.phase = "retry"
  /\ lastReq.out.kind = "ok"
  /\ accessToken = "T1"
  /\ lsToken = "T2"
  /\ lsRefresh = "R1"

\* ---- the context operations -----------------------------------------------------
Cleared ==
  /\ lsToken = "" /\ lsRefresh = ""
  /\ accessToken = "" /\ refreshToken = ""
  /\ user = NoUser

\* C6: logout() leaves both storage slots and both in-memory tokens empty and
\* the user null; called in a state that is already so, it changes nothing
\* (no token, no user, no flag, no pending work, nothing sent).
C6_LogoutClearsAndIsIdempotent ==
  [][Logout =>
       /\ Cleared'
       /\ Cleared => (/\ UNCHANGED <<lsToken, lsRefresh, accessToken, refreshToken,
                                     user, initializing, tasks>>
                      /\ sent' = {})]_vars

\* a logout that removed the tokens of a session
C6_Witness ==
  /\ lastOp.op = "logout"
  /\ Cleared
  /\ lastIssued # ""

\* The calls of refresh() of the context: by a consumer and by the init effect.
IsCtxRefresh(t) == t.req.ep = "refresh" /\ t.pc \in {"main", "refresh"}

\* C7: refresh() of the context.  Without a refresh token it fails at once:
\* nothing is sent, no token changes.  When the exchange is rejected (or gets
\* no response) the stored tokens stay as they are.  When it returns an
\* access token, that token is stored and the stored refresh token is the one
\* that was stored when refresh() was called, whatever the response offers.
C7_ContextRefresh ==
  [][/\ (CtxRefresh /\ refreshToken = "")
        => /\ lastOp'.op = "refresh" /\ lastOp'.kind = "err"
           /\ sent' = {} /\ tasks' = tasks
           /\ UNCHANGED <<lsToken, lsRefresh, accessToken, refreshToken>>
     /\ (CtxRefresh /\ refreshToken # "")
        => /\ refreshToken = lsRefresh
           /\ sent' = {Fetch("refresh", lsToken, lsRefresh, "request")}
     /\ LET t == got'.task  resp == got'.resp IN
        IsCtxRefresh(t) =>
          /\ ~ResOk(resp)
             => /\ UNCHANGED <<lsToken, lsRefresh, accessToken, refreshToken>>
                /\ lastOp'.kind = "err"
          /\ (ResOk(resp) /\ resp.access_token # "")
             => /\ lsToken' = resp.access_token
                /\ accessToken' = resp.access_token
                /\ lsRefresh' = t.capR]_vars

\* refresh() exchanged R1 for T2; the response offered R2, R1 stays stored
C7_Witness ==
  /\ lastOp.op = "refresh"
  /\ lastOp.kind = "ok"
  /\ lastReq.last.refresh_token = "R2"
  /\ lsToken = "T2"
  /\ lsRefresh = "R1"

\* C8: startup, that is, until the first operation is started.  With only a
\* refresh token stored, the mount effects send the refresh exchange, with
\* that token, and nothing else.  While the refresh() of the init effect is
\* pending, no identity fetch is pending or was just sent.  With both storage
\* slots empty nothing is sent, nothing is pending, and the session is
\* initialised with no user.
C8_StartupOrder ==
  (mounted /\ nOps = 0) =>
    /\ (got = NoGot /\ lsToken = "" /\ lsRefresh # "")
       => /\ sent = {Fetch("refresh", "", lsRefresh, "request")}
          /\ tasks = SetToBag({Task("init", "refresh", NewRequest("refresh", FALSE), lsRefresh)})
    /\ (\E t \in BagToSet(tasks) : t.op = "init" /\ t.pc = "refresh")
       => /\ \A u \in BagToSet(tasks) : u.req.ep # "me"
          /\ \A f \in sent : f.dest # "me"
    /\ (lsToken = "" /\ lsRefresh = "")
       => /\ tasks = EmptyBag
          /\ sent = {}
          /\ ~initializing
          /\ user = NoUser

\* the refresh of the startup has completed with T2, and only this step
\* sent the identity fetch, carrying T2
C8_Witness ==
  /\ nOps = 0
  /\ lastIssued = "T2"
  /\ lastReq.ep = "refresh"
  /\ lastReq.out.kind = "ok"
  /\ sent = {Fetch("me", "T2", "", "request")}
  /\ \E t \in BagToSet(tasks) : t.op = "init" /\ t.pc = "me"

\* C9 (as claimed): once the refresh endpoint has rejected the stored
\* refresh token, at startup or in the 401 path of a request, neither token
\* is stored and the user is null.
C9_RefreshRejectionDestroysSession ==
  (/\ lastReq.out.kind = "err"
   /\ lastReq.last.status = HTTP_UNAUTHORIZED
   /\ \/ lastReq.phase = "refresh"
      \/ (lastReq.ep = "refresh" /\ lastOp.op = "init"))
  => /\ lsToken = "" /\ lsRefresh = ""
     /\ user = NoUser

\* C10: login and register.  When the call returns a token pair, both storage
\* slots and both in-memory tokens hold the pair of the response and the
\* identity fetch of the same step carries the new access token.  When the
\* call fails with a response of the endpoint that has a detail text, the
\* error message of the operation is that text.
AuthResponse == IF lastReq.phase = "first" THEN lastReq.last ELSE lastReq.first

C10_LoginRegister ==
  lastReq.ep \in {"login", "register"} =>
    /\ lastReq.out.kind = "ok"
       => /\ lsToken = lastReq.last.access_token
          /\ lsRefresh = lastReq.last.refresh_token
          /\ accessToken = lastReq.last.access_token
          /\ refreshToken = lastReq.last.refresh_token
          /\ Fetch("me", lastReq.last.access_token, "", "request") \in sent
          /\ \A f \in sent : f.dest = "me" /\ f.auth = lastReq.last.access_token
    /\ (lastReq.out.kind = "err" /\ AuthResponse.detail # "")
       => /\ lastOp.op = lastReq.ep
          /\ lastOp.kind = "err"
          /\ lastOp.message = AuthResponse.detail

\* a login that replaced the stored pair T1/R1 by T2/R2
C10_Witness ==
  /\ lastReq.ep = "login"
  /\ lastReq.out.kind = "ok"
  /\ lastIssued = "T2"
  /\ lsToken = "T2"
  /\ lsRefresh = "R2"
  /\ sent = {Fetch("me", "T2", "", "request")}

\* ---- request(): failures ----------------------------------------------------------
\* C11: every failure of request() that stems from an HTTP response (after a
\* failed refresh, after the one retry, or with no refresh token) is an error
\* carrying the status and the parsed body of one non-ok response of the
\* endpoint, flagged needsAuth exactly when that status is 401; request()
\* returns a success only with the status and body of an ok response, the
\* first one or the one of the retry.
C11_FailuresCarryStatusAndBody ==
  /\ (lastReq.out.kind = "err" /\ lastReq.out # NetErr)
     => /\ lastReq.out.status = AuthResponse.status
        /\ lastReq.out.data = AuthResponse
        /\ ~ResOk(AuthResponse)
        /\ lastReq.out.needsAuth = (lastReq.out.status = HTTP_UNAUTHORIZED)
  /\ lastReq.out.kind = "ok"
     => /\ ResOk(lastReq.last)
        /\ lastReq.out.status = lastReq.last.status
        /\ lastReq.out.data = lastReq.last
        /\ lastReq.phase \in {"first", "retry"}

\* a call with no refresh token stored failed with 500: not an authorization failure
C11_Witness ==
  /\ lastReq.out.kind = "err"
  /\ lastReq.out.status = HTTP_SERVER_ERROR
  /\ ~lastReq.out.needsAuth
  /\ lastReq.phase = "first"

\* C12: listStories() never fails.  When its request() threw (non-ok
\* response, failed refresh or retry, fetch rejected) the caller gets a
\* success whose data is the built-in list of two demo stories; when it
\* returned, the caller gets the server's data as it came.
C12_ListStoriesNeverFails ==
  lastReq.ep = "stories" =>
    LET res == listStories(lastReq.out) IN
    /\ lastOp.op = "stories" /\ lastOp.kind = "ok"
    /\ res.ok
    /\ lastReq.out.kind = "err"
       => (~res.server /\ res.items = FALLBACK_STORIES /\ Len(res.items) = 2
           /\ res.status = HTTP_OK)
    /\ lastReq.out.kind = "ok"
       => (res.server /\ res.val = lastReq.last.val /\ res.status = lastReq.last.status)

\* the fetch of the story list was rejected and the demo list was delivered
C12_Witness ==
  /\ lastReq.ep = "stories"
  /\ lastReq.out = NetErr
  /\ lastOp = OpOut("stories", "ok", "")
  /\ listStories(lastReq.out).items = FALLBACK_STORIES

\* ==== story browser and authoring dashboard =========================================
\* The handlers of the screens call the api client and continue when the call
\* returns or throws; the call itself is request(), modelled above, of which
\* only the outcome matters here.  Each behaviour exercises one piece of
\* local state (the pieces are separate useState cells and no handler touches
\* two of them).
MaxUi    == 3        \* handlers started
MaxClock == 1        \* milliseconds that pass

Screens == {"story", "choice", "quiz", "episode", "advance", "journal"}
Payloads == {"p1"}                    \* what a form submits
ServerIds == {1, 2}                   \* ids the server gives to created items
StoryIds == {1, 2}                    \* ids of the stories of the story browser
EpIndexes == {0, 1}                   \* index field of the episode form
NextIndexes == {0, 5}                 \* next_episode_index values of the server
\* lists the server may return for a list request
ServerLists == {<<>>, <<Item(Sid(1), 0, "p1")>>}

\* ---- list updates of the handlers ----------------------------------------------------
\* setStories((s) => [optimistic, ...s]) / setChoices((c) => [...c, optimistic])
optimisticAdd(scr, list, opt) ==
  IF scr = "story" THEN <<opt>> \o list ELSE Append(list, opt)

\* s.map((it) => (it.id === tmpId ? res.data : it))
replacePlaceholder(list, tmpId, d) ==
  [i \in 1..Len(list) |-> IF list[i].id = tmpId THEN d ELSE list[i]]

\* s.filter((it) => it.id !== tmpId)
removePlaceholder(list, tmpId) == SelectSeq(list, LAMBDA it : it.id # tmpId)

\* list.filter((x) => String(x.id) !== String(c.id))
removeById(list, id) == SelectSeq(list, LAMBDA x : x.id # id)

deleteStarted_Optimistic(list, it) == removeById(list, it.id)

\* the Delete click handlers up to their await: no update of the list
deleteStarted(list, it) == list

\* Array.prototype.sort by index is stable: an element goes behind those
\* with an index that is not greater
insertByIndex(sorted, it) ==
  LET k == Cardinality({i \in 1..Len(sorted) : sorted[i].index <= it.index})
  IN  SubSeq(sorted, 1, k) \o <<it>> \o SubSeq(sorted, k + 1, Len(sorted))

RECURSIVE sortByIndex(_)
sortByIndex(list) ==
  IF list = <<>> THEN <<>>
  ELSE insertByIndex(sortByIndex(SubSeq(list, 1, Len(list) - 1)), list[Len(list)])

\* EpisodeForm onSubmit, the optimistic add: push, then sort by index
episodeAdd(list, opt) == sortByIndex(Append(list, opt))

journalStarted_Optimistic(list, entry) == <<entry>> \o list

\* useJournal create() up to its await: no update of the list
journalStarted(list, entry) == list

\* state.setData((prev) => [res.data, ...list])
journalAdd(list, d) == <<d>> \o list

\* ---- episode advance -------------------------------------------------------------------
\* prevIndex + 1 in JavaScript: addition for a number, concatenation for a string
Plus1(x) == IF x.t = "num" THEN Num(x.n + 1) ELSE Str(Append(x.s, 1))

\* Bodies of a successful submitChoice response, as request() parses them:
\* an object, the backend's envelope {success, data: {...}}, null (JSON that
\* does not parse) and "" (an empty body that is not JSON).
ChooseResults ==
  {[body |-> b, hasNext |-> TRUE, next |-> n] : b \in {"object", "envelope"}, n \in NextIndexes}
  \cup {[body |-> b, hasNext |-> FALSE, next |-> 0] : b \in {"object", "envelope", "null", "empty"}}

\* payload = result && (result.data || result);
\* serverNext = payload && (payload.next_episode_index ?? payload.next_ep_index)
serverNext(result) ==
  CASE result.body = "null"  -> Nullish
    [] result.body = "empty" -> Str(<<>>)
    [] OTHER -> IF result.hasNext THEN Num(result.next) ELSE Nullish

\* nextIndex = serverNext != null ? serverNext : optimisticNext
chosenIndex(result, optimisticNext) ==
  IF serverNext(result).t # "nullish" THEN serverNext(result) ELSE optimisticNext

chooseFailed_NoRollback(t) == epIndex

\* catch (e) { setEpIndex(prevIndex) }
chooseFailed(t) == t.prev

\* ---- useEpisode ----------------------------------------------------------------------
\* run() of useAsync up to its await: setError(null), the call is in flight
run(fs, a) == Append(fs, a)

\* useEffect(() => { run(); }, [run]) after a render: run is a new function,
\* and the effect calls it, when storyId or epIndex changed
effectRun(fs, old, new) == IF new # old THEN run(fs, new) ELSE fs

\* ---- handlers ---------------------------------------------------------------------------
NewTask(op, pc, tmpId, item) ==
  [call |-> nUi + 1, op |-> op, pc |-> pc, tmpId |-> tmpId, item |-> item,
   pre |-> items, alone |-> TRUE, prev |-> epIndex]

\* The other pending handlers, which note whether the list changed under them.
Others(ps, list) == {[t EXCEPT !.alone = @ /\ (list = items)] : t \in ps}

Ui(ev, t, d, r) == [ev |-> ev, task |-> t, data |-> d, result |-> r]

UiStep(list, ps, last) ==
  /\ items' = list
  /\ pend' = ps
  /\ uiLast' = last
  /\ UNCHANGED <<screen, now>>
  /\ UNCHANGED authVars

StartStep(list, t, ev) ==
  /\ nUi < MaxUi
  /\ nUi' = nUi + 1
  /\ UiStep(list, Others(pend, list) \cup {t}, Ui(ev, t, NoUi.data, NoResult))
  /\ UNCHANGED <<selected, epIndex, submitError, epFetch, epHook>>

DoneStep(list, t, ev, d) ==
  /\ UiStep(list, Others(pend \ {t}, list), Ui(ev, t, d, NoResult))
  /\ UNCHANGED <<selected, epIndex, submitError, epFetch, epHook, nUi>>

\* A signed-in session with one screen in its initial state; the stories of
\* the dashboard and the journal entries are being loaded by a mount effect.
InitUi ==
  /\ storage = "ok"
  /\ lsToken = "T1" /\ lsRefresh = "R1"
  /\ accessToken = "T1" /\ refreshToken = "R1"
  /\ user = "u1"
  /\ initializing = FALSE
  /\ mounted = TRUE
  /\ tasks = EmptyBag
  /\ sent = {}
  /\ got = NoGot
  /\ lastReq = NoReq
  /\ lastOp = NoOp
  /\ lastIssued = "T1"
  /\ nOps = 0
  /\ nFaults = 0
  /\ sinceLogout = FALSE
  /\ screen \in Screens
  /\ items \in (IF screen \in {"story", "journal"} THEN {<<>>} ELSE ServerLists)
  /\ selected = NoId
  /\ epIndex = Num(0)
  /\ submitError = FALSE
  /\ epFetch = <<>>
  /\ epHook = NoEpisode
  /\ pend = IF screen \in {"story", "journal"}
            THEN {[NoTask EXCEPT !.op = "load", !.pc = "main"]}
            ELSE {}
  /\ now = 0
  /\ uiLast = NoUi
  /\ nUi = 0

\* Time passes between two events.
Tick ==
  /\ screen \in {"story", "choice", "quiz"}
  /\ now < MaxClock
  /\ now' = now + 1
  /\ uiLast' = NoUi
  /\ UNCHANGED <<screen, items, selected, epIndex, submitError, epFetch, epHook, pend, nUi>>
  /\ UNCHANGED authVars

\* StoryForm / ChoiceForm / QuizQuestionForm onSubmit up to the await
CreateStart ==
  /\ screen \in {"story", "choice", "quiz"}
  /\ \E p \in Payloads :
       LET opt == Item(TmpId(now), 0, p)
       IN  StartStep(optimisticAdd(screen, items, opt),
                     NewTask("create", "main", TmpId(now), opt), "createStarted")

\* ... after api.authorCreate*() returned res
CreateOk ==
  \E t \in pend : \E k \in ServerIds :
    /\ t.op = "create"
    /\ LET d == Item(Sid(k), 0, t.item.payload)
       IN  DoneStep(replacePlaceholder(items, t.tmpId, d), t, "createOk", d)

\* ... after api.authorCreate*() threw
CreateFail ==
  \E t \in pend :
    /\ t.op = "create"
    /\ DoneStep(removePlaceholder(items, t.tmpId), t, "createFailed", NoUi.data)

\* Delete button of a choice or a quiz question, up to the await
DeleteStart ==
  /\ screen \in {"choice", "quiz"}
  /\ \E i \in 1..Len(items) :
       StartStep(deleteStarted(items, items[i]),
                 NewTask("delete", "main", items[i].id, items[i]), "deleteStarted")

DeleteOk ==
  \E t \in pend :
    /\ t.op = "delete"
    /\ DoneStep(removeById(items, t.item.id), t, "deleteOk", NoUi.data)

DeleteFail ==
  \E t \in pend :
    /\ t.op = "delete"
    /\ DoneStep(items, t, "deleteFailed", NoUi.data)

\* A list request of the dashboard (refreshEpisodes, refreshChoicesQuiz), up
\* to the await
LoadStart ==
  /\ screen \in {"choice", "quiz", "episode"}
  /\ StartStep(items, NewTask("load", "main", Sid(0), NoUi.data), "loadStarted")

\* setStories / setEpisodes / setChoices / setQuizQs (Array.isArray(res.data) ? res.data : [])
LoadOk ==
  \E t \in pend : \E list \in ServerLists :
    /\ t.op = "load"
    /\ DoneStep(list, t, "loadOk", NoUi.data)

LoadFail ==
  \E t \in pend :
    /\ t.op = "load"
    /\ DoneStep(items, t, "loadFailed", NoUi.data)

\* EpisodeForm onSubmit up to the await of api.authorCreateEpisode
EpisodeStart ==
  /\ screen = "episode"
  /\ \E i \in EpIndexes :
       LET opt == Item(Sid(0), i, "p2")
       IN  StartStep(episodeAdd(items, opt),
                     NewTask("episode", "create", Sid(0), opt), "episodeStarted")

\* api.authorCreateEpisode returned or threw: either way refreshEpisodes()
\* is called and awaited (in the try block or in the catch block)
EpisodeCreated ==
  \E t \in pend : \E ok \in BOOLEAN :
    /\ t.op = "episode" /\ t.pc = "create"
    /\ UiStep(items, Others((pend \ {t}) \cup {[t EXCEPT !.pc = IF ok THEN "refetch" ELSE "rollback"]}, items),
              NoUi)
    /\ UNCHANGED <<selected, epIndex, submitError, epFetch, epHook, nUi>>

\* refreshEpisodes() got the list: setEpisodes
EpisodeRefetchOk ==
  \E t \in pend : \E list \in ServerLists :
    /\ t.op = "episode" /\ t.pc \in {"refetch", "rollback"}
    /\ DoneStep(list, t, IF t.pc = "rollback" THEN "episodeFailedRefetched" ELSE "episodeOk", NoUi.data)

\* refreshEpisodes() failed: setEpError(msg), the list stays
EpisodeRefetchFail ==
  \E t \in pend :
    /\ t.op = "episode" /\ t.pc \in {"refetch", "rollback"}
    /\ DoneStep(items, t, IF t.pc = "rollback" THEN "episodeFailedStale" ELSE "episodeOkStale", NoUi.data)

\* The hook in the render that follows a handler's updates of selectedStoryId
\* and epIndex; `stale` are the calls a handler makes through a refetch it
\* captured in an earlier render
Rerender(stale) ==
  /\ epFetch' = effectRun(epFetch, Args(selected, epIndex), Args(selected', epIndex')) \o stale
  /\ epHook' = IF epFetch' # epFetch THEN [epHook EXCEPT !.error = FALSE] ELSE epHook

\* onSelectStory
SelectStory ==
  /\ screen = "advance"
  /\ nUi < MaxUi
  /\ nUi' = nUi + 1
  /\ selected' \in {Sid(k) : k \in StoryIds}
  /\ epIndex' = Num(0)
  /\ Rerender(<<>>)
  /\ uiLast' = [NoUi EXCEPT !.ev = "storySelected"]
  /\ UNCHANGED <<screen, items, submitError, pend, now>>
  /\ UNCHANGED authVars

\* onChoose up to the await of submit(); the choice buttons are disabled
\* while a submission is pending
Choose ==
  /\ screen = "advance"
  /\ selected # NoId
  /\ pend = {}
  /\ nUi < MaxUi
  /\ nUi' = nUi + 1
  /\ epIndex' = Plus1(epIndex)
  /\ submitError' = FALSE
  /\ LET t == NewTask("choose", "main", selected, NoUi.data)
     IN  UiStep(items, {t}, Ui("chooseStarted", t, NoUi.data, NoResult))
  /\ UNCHANGED selected
  /\ Rerender(<<>>)

\* submit() returned result
ChooseOk ==
  \E t \in pend : \E r \in ChooseResults :
    /\ t.op = "choose"
    /\ epIndex' = chosenIndex(r, Plus1(t.prev))
    /\ UiStep(items, pend \ {t}, Ui("chooseOk", t, NoUi.data, r))
    /\ UNCHANGED <<selected, submitError, nUi>>
    \* setTimeout(() => refetchEp(), 0): the run of the render onChoose was made in
    /\ Rerender(<<Args(t.tmpId, t.prev)>>)

\* submit() set its error state and rethrew; onChoose catches
ChooseFail ==
  \E t \in pend :
    /\ t.op = "choose"
    /\ epIndex' = chooseFailed(t)
    /\ submitError' = TRUE
    /\ UiStep(items, pend \ {t}, Ui("chooseFailed", t, NoUi.data, NoResult))
    /\ UNCHANGED <<selected, nUi>>
    /\ Rerender(<<>>)

\* A getEpisode call of useEpisode returned (the server's episode or the
\* demo episode of the fallback): setData(res.data)
EpisodeFetched ==
  \E i \in 1..Len(epFetch) :
    /\ epHook' = [epHook EXCEPT !.data = epFetch[i]]
    /\ epFetch' = SubSeq(epFetch, 1, i - 1) \o SubSeq(epFetch, i + 1, Len(epFetch))
    /\ uiLast' = [NoUi EXCEPT !.ev = "episodeFetched"]
    /\ UNCHANGED <<screen, items, selected, epIndex, submitError, pend, now, nUi>>
    /\ UNCHANGED authVars

\* ... threw (no demo episode for these arguments): setError(e), data stays
EpisodeFetchFailed ==
  \E i \in 1..Len(epFetch) :
    /\ epHook' = [epHook EXCEPT !.error = TRUE]
    /\ epFetch' = SubSeq(epFetch, 1, i - 1) \o SubSeq(epFetch, i + 1, Len(epFetch))
    /\ uiLast' = [NoUi EXCEPT !.ev = "episodeFetchFailed"]
    /\ UNCHANGED <<screen, items, selected, epIndex, submitError, pend, now, nUi>>
    /\ UNCHANGED authVars

\* handleAddJournal -> create(content) of useJournal, up to the await
JournalStart ==
  /\ screen = "journal"
  /\ \E p \in Payloads :
       LET entry == Item(Sid(0), 0, p)
       IN  StartStep(journalStarted(items, entry),
                     NewTask("journal", "main", Sid(0), entry), "journalStarted")

JournalOk ==
  \E t \in pend : \E k \in ServerIds :
    /\ t.op = "journal"
    /\ LET d == Item(Sid(k), 0, t.item.payload)
       IN  DoneStep(journalAdd(items, d), t, "journalOk", d)

\* api.createJournal threw: create() rethrows, nothing is set
JournalFail ==
  \E t \in pend :
    /\ t.op = "journal"
    /\ DoneStep(items, t, "journalFailed", NoUi.data)

\* Click on a story of the dashboard's list: setSelectedStory(s), then
\* refreshEpisodes(s.id) up to its await (the episodes are another list)
StorySelect ==
  /\ screen = "story"
  /\ nUi < MaxUi
  /\ nUi' = nUi + 1
  /\ \E i \in 1..Len(items) :
       /\ selected' = items[i].id
       /\ UiStep(items, pend,
                 Ui("listEpisodes", NewTask("select", "main", items[i].id, items[i]),
                    NoUi.data, NoResult))
  /\ UNCHANGED <<epIndex, submitError, epFetch, epHook>>

\* A later handler of the dashboard that names the selected story in its
\* request: api.authorCreateEpisode(selectedStory.id, payload), up to its await
StoryRequest ==
  /\ screen = "story"
  /\ selected # NoId
  /\ nUi < MaxUi
  /\ nUi' = nUi + 1
  /\ UiStep(items, pend,
            Ui("createEpisode", NewTask("request", "main", selected, NoUi.data),
               NoUi.data, NoResult))
  /\ UNCHANGED <<selected, epIndex, submitError, epFetch, epHook>>

NextUi ==
  \/ Tick
  \/ CreateStart \/ CreateOk \/ CreateFail
  \/ DeleteStart \/ DeleteOk \/ DeleteFail
  \/ LoadStart \/ LoadOk \/ LoadFail
  \/ EpisodeStart \/ EpisodeCreated \/ EpisodeRefetchOk \/ EpisodeRefetchFail
  \/ StorySelect \/ StoryRequest
  \/ SelectStory \/ Choose \/ ChooseOk \/ ChooseFail
  \/ EpisodeFetched \/ EpisodeFetchFailed
  \/ JournalStart \/ JournalOk \/ JournalFail

SpecUi == InitUi /\ [][NextUi]_vars

\* ---- claims about the screens ------------------------------------------------------
HasId(list, id) == \E i \in 1..Len(list) : list[i].id = id

\* C13: when the create call of a story, choice or quiz question fails (and
\* nothing else changed the list while the call was pending), the placeholder
\* is gone and the list is exactly the list as it was before the create was
\* started.
C13_CreateFailureRestoresList ==
  (uiLast.ev = "createFailed" /\ uiLast.task.alone)
    => /\ ~HasId(items, uiLast.task.tmpId)
       /\ items = uiLast.task.pre

\* C14: when the create call of an episode fails, the optimistically added
\* episode is no longer in the list once the handler finishes and the list
\* equals the list before the mutation, including when the follow-up
\* re-fetch fails too.  (After a re-fetch that succeeds the list is whatever
\* the server returned; the case stated is the one where both calls fail and
\* nothing else changed the list meanwhile.)
C14_EpisodeFailureRestoresList ==
  (uiLast.ev = "episodeFailedStale" /\ uiLast.task.alone)
    => items = uiLast.task.pre

HasItem(list, d) == \E i \in 1..Len(list) : list[i] = d

\* C15: when the create call of a story, choice or quiz question succeeds, its
\* placeholder is replaced by the item the server returned: once the handler
\* has finished, the list contains the server's item and no entry with the
\* temporary id of that call.
C15_CreateSuccessReplacesPlaceholder ==
  uiLast.ev = "createOk"
    => /\ HasItem(items, uiLast.data)
       /\ ~HasId(items, uiLast.task.tmpId)

\* C16: on choosing, the episode index is at once the previous index plus
\* one; when the submission succeeds, the index ends at the next episode
\* index N the response carries and, when the response carries none, stays at
\* the previous index plus one.
C16_AdvanceFollowsServer ==
  /\ uiLast.ev = "chooseStarted" => epIndex = Plus1(uiLast.task.prev)
  /\ uiLast.ev = "chooseOk"
       => epIndex = IF uiLast.result.hasNext
                    THEN Num(uiLast.result.next)
                    ELSE Plus1(uiLast.task.prev)

\* C17: when the choice submission fails, the episode index is back at the
\* value it had before the choice was made, and the failure is surfaced: the
\* error state of the submit hook is set and the handler's catch branch ran.
C17_AdvanceRolledBack ==
  uiLast.ev = "chooseFailed"
    => /\ epIndex = uiLast.task.prev
       /\ submitError

\* a second choice, made at an index the server gave, failed
C17_Witness ==
  /\ uiLast.ev = "chooseFailed"
  /\ uiLast.task.prev = Num(5)
  /\ epIndex = Num(5)

\* C18: deleting a choice or a quiz question is not optimistic: the click
\* itself does not change the list, a delete call that fails leaves the list
\* unchanged, and the item is removed by the step that handles the success of
\* the delete call.
C18_DeleteNotOptimistic ==
  [][ /\ uiLast'.ev \in {"deleteStarted", "deleteFailed"} => items' = items
      /\ uiLast'.ev = "deleteOk"
           => /\ ~HasId(items', uiLast'.task.item.id)
              /\ items' = removeById(items, uiLast'.task.item.id) ]_vars

\* a delete call failed and the item is still listed
C18_Witness ==
  /\ uiLast.ev = "deleteFailed"
  /\ uiLast.task.alone
  /\ HasItem(items, uiLast.task.item)
  /\ items = uiLast.task.pre

\* C19 (as claimed): creating a journal entry is optimistic: the entry is in
\* the list as soon as the handler has started the call, and a failure rolls
\* the list back to what it was before.
C19_JournalOptimistic ==
  /\ uiLast.ev = "journalStarted"
       => items = journalAdd(uiLast.task.pre, uiLast.task.item)
  /\ (uiLast.ev = "journalFailed" /\ uiLast.task.alone)
       => items = uiLast.task.pre

\* C19 (amended): creating a journal entry is not optimistic: starting the
\* call leaves the list unchanged, the entry the server returned is put in
\* front of the list by the step that handles the success of the call, and a
\* failure leaves the list unchanged.
C19_JournalAfterSuccess ==
  [][ /\ uiLast'.ev \in {"journalStarted", "journalFailed"} => items' = items
      /\ uiLast'.ev = "journalOk" => items' = <<uiLast'.data>> \o items ]_vars

\* a second entry was created and stands in front of the first
C19_Witness ==
  /\ uiLast.ev = "journalOk"
  /\ Len(items) = 2
  /\ items[1] = uiLast.data
  /\ items[2] # uiLast.data

\* ==== the session when localStorage fails ===========================================
\* The state after the useState initialisers, for any content of the storage
\* and any condition of it.
InitStorage ==
  /\ storage \in StorageModes
  /\ lsToken \in {"", "T1"}
  /\ lsRefresh \in {"", "R1"}
  /\ accessToken = initialState([storage |-> storage], lsToken)
  /\ refreshToken = initialState([storage |-> storage], lsRefresh)
  /\ user = NoUser
  /\ initializing = TRUE
  /\ mounted = FALSE
  /\ tasks = EmptyBag
  /\ sent = {}
  /\ lastReq = NoReq
  /\ got = NoGot
  /\ lastOp = NoOp
  /\ lastIssued = lsToken
  /\ nOps = 0
  /\ nFaults = 0
  /\ sinceLogout = FALSE
  /\ UiIdle

\* The browser starts or stops denying access to the storage, or the storage
\* runs full or is emptied by another page of the origin.
StorageChange ==
  /\ storage' \in StorageModes \ {storage}
  /\ sent' = {}
  /\ got' = NoGot
  /\ lastReq' = NoReq
  /\ lastOp' = NoOp
  /\ UNCHANGED <<lsToken, lsRefresh, accessToken, refreshToken, user, initializing,
                 mounted, tasks, lastIssued, nOps, nFaults, sinceLogout>>
  /\ UNCHANGED uiVars

NextStorage == Next \/ StorageChange

SpecStorage == InitStorage /\ [][NextStorage]_vars

\* C20: failures of the token storage are swallowed, never propagated.  While
\* reads throw, the token counts as absent: request() sends no Authorization
\* header and a 401 starts no refresh.  No operation of the session ends with
\* the storage's exception: logout succeeds, and login, register, refresh and
\* the protected calls fail only when their request failed (refresh also when
\* the context holds no refresh token).
C20_StorageFailuresSwallowed ==
  /\ storage = "blocked"
       => \A f \in sent : /\ f.by = "request" => f.auth = ""
                          /\ f.by # "tryRefresh"
  /\ lastOp.message # "storage"
  /\ lastOp.op = "logout" => lastOp.kind = "ok"
  /\ (lastOp.op \in {"login", "register", "refresh", "call"} /\ lastOp.kind = "err")
       => \/ lastReq.out.kind = "err"
          \/ lastOp = OpOut("refresh", "err", "No refresh token")

\* ==== further claims about the session ==============================================
PhaseRank(ph) == CASE ph = "first" -> 0 [] ph = "refresh" -> 1 [] ph = "retry" -> 2 [] OTHER -> 3

\* C21: a call of request() issues at most three network calls (the call, one
\* refresh exchange, one retry), and every response delivered to it either
\* ends the call or moves it one phase forward (first, refresh, retry), so it
\* ends once its network calls complete; a response to the retry and a
\* response to a call made with allowRetry = false (api.refresh) always end
\* the call, also when they are 401.
C21_RequestTerminates ==
  [][ /\ \A r \in AllReqs' : r.nFetch + r.nRefresh <= 3
      /\ got' # NoGot
           => LET r == got'.task.req
              IN  \/ /\ lastReq' # NoReq
                     /\ lastReq'.out.kind # "none"
                     /\ lastReq'.ep = r.ep
                  \/ /\ lastReq' = NoReq
                     /\ r.phase # "retry"
                     /\ r.allowRetry
                     /\ \E u \in BagToSet(tasks') :
                          /\ u.op = got'.task.op
                          /\ u.req.ep = r.ep
                          /\ PhaseRank(u.req.phase) = PhaseRank(r.phase) + 1
                          /\ u.req.nFetch + u.req.nRefresh = r.nFetch + r.nRefresh + 1 ]_vars

\* the refresh endpoint itself answered 401 while a refresh token is stored:
\* the call ended after its one network call
C21_Witness ==
  /\ lastReq.ep = "refresh"
  /\ lastReq.last.status = HTTP_UNAUTHORIZED
  /\ lastReq.out.kind = "err"
  /\ lastReq.nFetch = 1 /\ lastReq.nRefresh = 0
  /\ lsRefresh # ""

\* C22: when the server rejects a login or register call (the call ends with
\* the error of a response), the call has left the stored access token as it
\* was (whatever its 401 path wrote replaced an equal value), and the step
\* that ends the call changes neither stored token nor the user.
C22_RejectedLoginChangesNothing ==
  [][ (/\ lastOp'.op \in {"login", "register"}
       /\ lastOp'.kind = "err"
       /\ lastReq'.out.kind = "err"
       /\ lastReq'.out.status # NET_FAIL)
      => /\ lastReq'.wrote = lastReq'.over
         /\ UNCHANGED <<lsToken, lsRefresh, user>> ]_vars

\* C23: once logout() has run, no step writes an access token to the storage
\* until a login or register succeeds, also not the completion of a 401
\* refresh exchange of a request that was in flight at the logout.
C23_NoTokenWrittenAfterLogout ==
  [][ (sinceLogout /\ sinceLogout') => (lsToken' = lsToken \/ lsToken' = "") ]_vars

\* C24: in every state of AuthProvider a user that is not null comes with a
\* stored access token: an identity response that arrives after logout, or
\* for a superseded run of the startup effect, does not set the user.
C24_UserImpliesToken == user # NoUser => lsToken # ""

\* C25: whenever no operation is in flight, the access token in the state of
\* AuthProvider equals the access token in the storage, also after the api
\* client has refreshed the token itself in the 401 path.
C25_StateMatchesStorage == tasks = EmptyBag => accessToken = lsToken

\* C26: a refresh() of the context that completes when the storage holds the
\* refresh token of a newer session (a login or register response was
\* persisted after the refresh had captured its token) leaves both stored
\* tokens of the newer session alone.
C26_LateRefreshKeepsNewerSession ==
  [][ (/\ IsCtxRefresh(got'.task)
       /\ lastReq' # NoReq
       /\ lsRefresh \notin {"", got'.task.capR})
      => UNCHANGED <<lsToken, lsRefresh>> ]_vars

\* ==== further claims about the screens ==============================================
\* C27: no request of the authoring dashboard carries a placeholder id
\* (tmp-...) as its story id or as the id of the choice or question to
\* delete, whatever the order of create, select and delete.
C27_NoRequestWithPlaceholderId ==
  uiLast.ev \in {"listEpisodes", "createEpisode", "deleteStarted"}
    => ~uiLast.task.tmpId.tmp

\* C28: when the arguments of useEpisode change while an earlier call is in
\* flight, then once every call has returned and none has left an error the
\* hook holds the data of the latest arguments, whichever response came last.
C28_DataOfLatestArguments ==
  (screen = "advance" /\ epFetch = <<>> /\ ~epHook.error)
    => epHook.data = Args(selected, epIndex)

\* C29: when a submission of a choice resolves, by success or by failure,
\* after the user selected a different story, the episode index of the
\* selected story is 0 and the resolution leaves it as it is.
C29_ResolutionKeepsNewStoryIndex ==
  [][ (uiLast'.ev \in {"chooseOk", "chooseFailed"} /\ uiLast'.task.tmpId # selected)
        => (epIndex = Num(0) /\ epIndex' = epIndex) ]_vars

\* ---- startup ------------------------------------------------------------------------
\* The session when the effects of the first render run and every issued
\* network call completes: React runs the effects of a committed render, and a
\* call that completes resumes the function that awaits it.  The second
\* condition is WF_vars(Deliver) written out, WF_vars(A) being
\* []<>(~ENABLED <<A>>_vars) \/ []<><<A>>_vars: a response can be delivered
\* exactly when a call is pending.
SpecLive ==
  /\ Init /\ [][Next]_vars
  /\ WF_vars(Mount)
  /\ ([]<>(tasks = EmptyBag) \/ []<><<Deliver>>_vars)

\* C30: on every startup path (no tokens, one token, both, refresh success or
\* failure, identity failure, re-runs of the init effect after the token
\* state changed) initializing becomes false, and stays false, provided every
\* issued network call completes.
C30_InitializingEnds == <>[](~initializing)

\* the last run of the init effect ends after an earlier run, whose refresh
\* changed the token state, was superseded
C30_Witness ==
  /\ ~initializing
  /\ got.task.op = "init" /\ got.task.pc = "me" /\ got.task.active
  /\ lastOp = OpOut("init", "ok", "")
  /\ lastIssued = "T2"

====
